---- MODULE Spec2Model ----
(***************************************************************************)
(* A model of scripts/make.js, the build script of the library: discovery  *)
(* and classification of the source files, derivation of module names,     *)
(* the path-mapping manifests, the compile tasks and the development and   *)
(* production pipelines.                                                   *)
(*                                                                         *)
(* Strings are sequences of one-character strings, so that endsWith,       *)
(* replace, dirname and the exclusion patterns work on characters, as in   *)
(* the script.                                                             *)
(***************************************************************************)
EXTENDS Naturals, Sequences, FiniteSets

(***************************************************************************)
(* Characters and words the paths of the model are made of.                *)
(***************************************************************************)
Sl == <<"/">>
W_src == <<"s", "r", "c">>
W_dist == <<"d", "i", "s", "t">>
W_dev == <<"d", "e", "v">>
W_esm == <<"e", "s", "m">>
W_cjs == <<"c", "j", "s">>
W_Foo == <<"F", "o", "o">>
W_bar == <<"b", "a", "r">>
W_index == <<"i", "n", "d", "e", "x">>
W_re == <<"r", "e">>
W_tests == <<"_", "_", "t", "e", "s", "t", "s", "_", "_">>
W_test == <<"t", "e", "s", "t">>
W_pathMapping == <<"p", "a", "t", "h", "-", "m", "a", "p", "p", "i", "n", "g">>
W_a == <<"a">>
W_old == <<"o", "l", "d">>
W_packageJson == <<"p", "a", "c", "k", "a", "g", "e", ".", "j", "s", "o", "n">>
W_LICENSE == <<"L", "I", "C", "E", "N", "S", "E">>
W_README == <<"R", "E", "A", "D", "M", "E">>
W_yarnLock == <<"y", "a", "r", "n", ".", "l", "o", "c", "k">>
W_docs == <<"d", "o", "c", "s">>
W_native == <<"n", "a", "t", "i", "v", "e">>
X_js == <<".", "j", "s">>
X_md == <<".", "m", "d">>
X_DSStore == <<".", "D", "S", "_", "S", "t", "o", "r", "e">>
Dot == <<".">>
Empty == <<>>

(***************************************************************************)
(* String primitives of JavaScript, rambdax and path used by the script.   *)
(***************************************************************************)
\* s.slice(i - 1, j) with 1-based inclusive bounds
Slice(s, i, j) == IF j >= i THEN SubSeq(s, i, j) ELSE << >>

\* sub occurs in s at position i
OccursAt(sub, s, i) ==
    /\ i >= 1
    /\ i + Len(sub) - 1 <= Len(s)
    /\ \A k \in 1..Len(sub) : s[i + k - 1] = sub[k]

\* a regular expression without metacharacters tested on s: a substring search
Contains(sub, s) == \E i \in 1..(Len(s) + 1) : OccursAt(sub, s, i)

\* s.indexOf(sub) + 1, 0 when sub does not occur
IndexOf(sub, s) ==
    IF Contains(sub, s)
    THEN CHOOSE i \in 1..(Len(s) + 1) :
            /\ OccursAt(sub, s, i)
            /\ \A j \in 1..(i - 1) : ~OccursAt(sub, s, j)
    ELSE 0

\* rambdax endsWith(suffix, s)
endsWith(suffix, s) ==
    /\ Len(suffix) <= Len(s)
    /\ OccursAt(suffix, s, Len(s) - Len(suffix) + 1)

\* rambdax replace(pattern, replacer, s) with a string pattern:
\* String.prototype.replace, which replaces the first occurrence only
replace(pattern, replacer, s) ==
    LET i == IndexOf(pattern, s)
    IN  IF i = 0 THEN s
        ELSE Slice(s, 1, i - 1) \o replacer \o Slice(s, i + Len(pattern), Len(s))

\* rambdax tail on a string: s.slice(1)
tail(s) == Slice(s, 2, Len(s))

\* the position of the last "/" of s, 0 when there is none
LastSlash(s) ==
    IF \E i \in 1..Len(s) : s[i] = "/"
    THEN CHOOSE i \in 1..Len(s) : s[i] = "/" /\ \A j \in (i + 1)..Len(s) : s[j] # "/"
    ELSE 0

\* path.dirname (posix) of a path without a trailing slash
dirname(s) ==
    LET i == LastSlash(s)
    IN  IF i = 0 THEN Dot
        ELSE IF i = 1 THEN Sl
        ELSE Slice(s, 1, i - 1)

(***************************************************************************)
(* The configuration of the script.                                        *)
(***************************************************************************)
\* the name field of package.json
pkgName == <<"l", "i", "b">>

\* the external list of the base rollup configuration
rollupConfigExternal == {<<"r", "x">>}

ESM_MODULES == W_esm
CJS_MODULES == W_cjs
Formats == {CJS_MODULES, ESM_MODULES}

SOURCE_PATH == Sl \o W_src
DIST_PATH == Sl \o W_dist
DEV_PATH == Sl \o W_dev

DIR_PATH(isDevelopment) == IF isDevelopment THEN DEV_PATH ELSE DIST_PATH

DO_NOT_BUILD_PATHS ==
    { <<"a", "d", "a", "p", "t", "e", "r", "s">> \o Sl \o W_tests,
      W_test \o X_js,
      <<"t", "y", "p", "e">> \o X_js,
      <<"i", "n", "t", "e", "g", "r", "a", "t", "i", "o", "n", "T", "e", "s", "t">> \o X_js,
      <<"_", "_", "m", "o", "c", "k", "s", "_", "_">>,
      <<"C", "o", "l", "l", "e", "c", "t", "i", "o", "n">> \o Sl
          \o <<"R", "e", "c", "o", "r", "d", "C", "a", "c", "h", "e">> \o X_js,
      X_DSStore }

\* anymatch(patterns, value) for patterns that are regular expressions
anymatch(patterns, value) == \E p \in patterns : Contains(p, value)

isNotIncludedInBuildPaths(value) == ~anymatch(DO_NOT_BUILD_PATHS, value)

\* takeFiles on an item of the walk, given by its path
takeFiles(path) == endsWith(X_js, path) /\ isNotIncludedInBuildPaths(path)

\* takeModules on the walk: the paths of the eligible items, in walk order
takeModules(paths) == SelectSeq(paths, takeFiles)

removeSourcePath(file) == replace(SOURCE_PATH, Empty, file)

createModulePath(isDevelopment, format, file) ==
    replace(SOURCE_PATH, DIR_PATH(isDevelopment) \o Sl \o format, file)

\* (value, like module below, is a const of the source: it is bound once)
createPathName(file) ==
    CHOOSE name \in
        { IF endsWith(W_index \o X_js, value)
          THEN dirname(value)
          ELSE replace(X_js, Empty, value) : value \in {removeSourcePath(file)} } : TRUE

createModuleName(name) ==
    CHOOSE moduleName \in
        { pkgName \o (IF module = Empty THEN module ELSE Sl \o module) :
            module \in {tail(name)} } : TRUE

\* createExternals on the walk
createExternals(paths) ==
    LET eligible == SelectSeq(paths, takeFiles)
    IN  [i \in 1..Len(eligible) |-> createModuleName(createPathName(eligible[i]))]

(***************************************************************************)
(* The source trees of the model.  Files are given by their absolute path. *)
(***************************************************************************)
F_index == SOURCE_PATH \o Sl \o W_index \o X_js
F_FooIndex == SOURCE_PATH \o Sl \o W_Foo \o Sl \o W_index \o X_js
F_FooBar == SOURCE_PATH \o Sl \o W_Foo \o Sl \o W_bar \o X_js
F_FooBarTest ==
    SOURCE_PATH \o Sl \o W_Foo \o Sl \o W_tests \o Sl \o W_bar \o Dot \o W_test \o X_js
F_Foo == SOURCE_PATH \o Sl \o W_Foo \o X_js
F_FooReindex == SOURCE_PATH \o Sl \o W_Foo \o Sl \o W_re \o W_index \o X_js
F_pathMapping == SOURCE_PATH \o Sl \o W_pathMapping \o X_js
F_aMd == SOURCE_PATH \o Sl \o W_a \o X_md
F_DSStore == SOURCE_PATH \o Sl \o X_DSStore
D_Foo == SOURCE_PATH \o Sl \o W_Foo

\* every file of the model, in the order of a depth-first walk that reads each
\* directory in code-unit order (Foo/ before Foo.js, upper case before lower)
WalkOrder ==
    << F_DSStore, F_FooBarTest, F_FooBar, F_FooIndex, F_FooReindex, F_Foo,
       F_aMd, F_index, F_pathMapping >>

Range(seq) == {seq[i] : i \in 1..Len(seq)}

Universe == Range(WalkOrder)

\* klaw-sync on the source root: the files of the tree in walk order
klaw(tree) == SelectSeq(WalkOrder, LAMBDA p : p \in tree)

(***************************************************************************)
(* The path-mapping manifest.                                              *)
(***************************************************************************)
Quote == <<"'">>
KeyValueSeparator == <<"'", ":", " ", "'">>
Indent == <<" ", " ", " ", " ">>
Comma == <<",">>

toStringKeyValue(module) == Quote \o module.key \o KeyValueSeparator \o module.value \o Quote

indentLine(line) == Indent \o line \o Comma

\* toStringObject: the lines of the object literal (join('\n') of the lines)
toStringObject(obj) == [i \in 1..Len(obj) |-> indentLine(toStringKeyValue(obj[i]))]

\* the file written for the lines of an object literal
pathMappingTemplate(obj) == [kind |-> "manifest", lines |-> toStringObject(obj)]

\* the entries buildPathMapping(format) maps the modules to
pathMappingEntries(isDevelopment, format, files) ==
    [i \in 1..Len(files) |->
        LET name == createPathName(files[i])
        IN  [key |-> createModuleName(name),
             value |-> (IF isDevelopment THEN DEV_PATH ELSE pkgName) \o Sl \o format \o name]]

pathMappingFile(isDevelopment, format) ==
    DIR_PATH(isDevelopment) \o Sl \o format \o Sl \o W_pathMapping \o X_js

\* one property of an object literal, as JavaScript reads the line
\*     'key': 'value',
\* : the key ends at the first quote after the opening one
ParseLine(line) ==
    LET body == Slice(line, Len(Indent) + 2, Len(line))
        k == IndexOf(Quote, body)
        rest == Slice(body, k + Len(KeyValueSeparator), Len(body))
    IN  [key |-> Slice(body, 1, k - 1),
         value |-> Slice(rest, 1, Len(rest) - Len(Quote) - Len(Comma))]

\* the object the function exported by a manifest module returns: of two
\* properties of an object literal with the same key, the later one stays
LoadManifest(content) ==
    LET props == [i \in 1..Len(content.lines) |-> ParseLine(content.lines[i])]
        keys == {props[i].key : i \in 1..Len(props)}
        last(k) == CHOOSE i \in 1..Len(props) :
                      /\ props[i].key = k
                      /\ \A j \in (i + 1)..Len(props) : props[j].key # k
    IN  [k \in keys |-> props[last(k)].value]

(***************************************************************************)
(* The package descriptor.  An object is a function from its keys to the   *)
(* JSON texts of its values.                                               *)
(***************************************************************************)
V_main == Dot \o Sl \o W_cjs \o Sl \o W_index \o X_js
V_module == Dot \o Sl \o W_esm \o Sl \o W_index \o X_js
V_false == <<"f", "a", "l", "s", "e">>

omit(keys, obj) == [k \in (DOMAIN obj) \ keys |-> obj[k]]

\* rambdax merge(obj, newProps): Object.assign({}, obj, newProps)
merge(obj, newProps) ==
    [k \in (DOMAIN obj) \cup (DOMAIN newProps) |->
        IF k \in DOMAIN newProps THEN newProps[k] ELSE obj[k]]

EntryPoints ==
    [k \in {"main", "module", "sideEffects"} |->
        IF k = "main" THEN V_main ELSE IF k = "module" THEN V_module ELSE V_false]

\* pipe(omit(['scripts']), merge({...}), prettyJson): the curried merge({...})
\* is applied to the object, which arrives as newProps
prepareJson(obj) == merge(EntryPoints, omit({"scripts"}, obj))

\* the package.json files of the model
Packages ==
    { [k \in {"name", "scripts"} |-> IF k = "name" THEN pkgName ELSE W_a],
      [k \in {"name", "main"} |-> IF k = "name" THEN pkgName ELSE W_index \o X_js] }

StaticAssets ==
    { W_LICENSE, W_README \o X_md, W_yarnLock, W_docs, W_src, W_native }

(***************************************************************************)
(* The state of a run.                                                     *)
(***************************************************************************)
MaxFiles == 2
MaxEvents == 2
MaxChanges == 2

VARIABLES
    isDevelopment,        \* process.env.NODE_ENV === 'development'
    unhandledRejections,  \* what the runtime does with a rejected promise nobody handles
    mapAsyncConcurrent,   \* whether mapAsync calls its function on every item at once
    pkg,                  \* require('../package.json')
    tree,                 \* the files under the source root
    modules,              \* takeModules(paths)
    externals,            \* createExternals(paths)
    pc,                   \* "load", "script", "loop" (the event loop) or "exited"
    ip,                   \* the next statement of the branch taken
    exitCode,             \* "none", "zero" or "nonzero"
    fs,                   \* the files and directories under the output roots
    errlog,               \* the formats whose manifest failure was logged
    tasks,                \* the calls of buildModule, in call order
    batch,                \* the promise of mapAsync for each format
    watched,              \* the paths the watcher has reported
    events,               \* the number of events handed to the handler
    lastEvent,            \* the last event handed to the handler
    revision              \* for each path, how many contents the file has had

vars ==
    << isDevelopment, unhandledRejections, mapAsyncConcurrent, pkg, tree, modules,
       externals, pc, ip, exitCode, fs, errlog, tasks, batch, watched, events,
       lastEvent, revision >>

config == << isDevelopment, unhandledRejections, mapAsyncConcurrent, pkg >>
discovery == << modules, externals >>
watcher == << watched, events, lastEvent, revision >>

DevScript ==
    << "cleanFolder", "createFolder", "buildCjsPathMapping", "buildEsmPathMapping",
       "watch" >>

\* the production branch with the two batches in the other order
ProdScriptCjsFirst ==
    << "cleanFolder", "createFolder", "createPackageJson", "copyFiles",
       "buildCjsPathMapping", "buildEsmPathMapping", "buildCjsModules",
       "buildEsmModules" >>

\* the production branch with the manifests before the descriptor and the copy
ProdScriptManifestsFirst ==
    << "cleanFolder", "createFolder", "buildCjsPathMapping", "buildEsmPathMapping",
       "createPackageJson", "copyFiles", "buildEsmModules", "buildCjsModules" >>

ProdScript ==
    << "cleanFolder", "createFolder", "createPackageJson", "copyFiles",
       "buildCjsPathMapping", "buildEsmPathMapping", "buildEsmModules",
       "buildCjsModules" >>

Script == IF isDevelopment THEN DevScript ELSE ProdScript

AtStatement(name) == pc = "script" /\ ip <= Len(Script) /\ Script[ip] = name

\* the statement is done: on to the next one, or to the event loop
Advance ==
    /\ ip' = ip + 1
    /\ pc' = IF ip = Len(Script) THEN "loop" ELSE "script"
    /\ exitCode' = exitCode

\* an exception nobody catches ends the process
Throw ==
    /\ pc' = "exited"
    /\ exitCode' = "nonzero"
    /\ ip' = ip

Under(dir, p) == p = dir \/ OccursAt(dir \o Sl, p, 1)

Dir == [kind |-> "dir"]
Stale == [kind |-> "stale"]

\* the files of the trees a whole run is followed on
PipelineFiles == {F_index, F_FooBar, F_FooBarTest, F_aMd, F_pathMapping}

InitialTrees == {t \in SUBSET PipelineFiles : Cardinality(t) <= MaxFiles}

\* the state when the script is loaded, for a source tree among trees
InitOn(trees) ==
    /\ isDevelopment \in BOOLEAN
    /\ unhandledRejections \in {"warn", "throw"}
    /\ mapAsyncConcurrent \in BOOLEAN
    /\ pkg \in Packages
    \* mapAsync is called and package.json is written by the production branch only
    /\ isDevelopment => ~mapAsyncConcurrent /\ "scripts" \in DOMAIN pkg
    /\ tree \in trees
    /\ modules = << >>
    /\ externals = << >>
    /\ pc = "load"
    /\ ip = 1
    /\ exitCode = "none"
    /\ fs = [p \in {DIST_PATH, DIST_PATH \o Sl \o W_old, DEV_PATH, DEV_PATH \o Sl \o W_old}
                |-> IF p \in {DIST_PATH, DEV_PATH} THEN Dir ELSE Stale]
    /\ errlog = << >>
    /\ tasks = << >>
    /\ batch = [f \in Formats |-> "none"]
    /\ watched = {}
    /\ events = 0
    /\ lastEvent = [event |-> "none", path |-> Empty]
    /\ revision = [p \in Universe |-> IF p \in tree THEN 1 ELSE 0]

Init == InitOn(InitialTrees)

\* lines 131-140: the walk, the modules and the externals, computed once
Discover ==
    /\ pc = "load"
    /\ LET paths == klaw(tree)
       IN  /\ modules' = takeModules(paths)
           /\ externals' = createExternals(paths)
    /\ pc' = "script"
    /\ UNCHANGED << config, tree, ip, exitCode, fs, errlog, tasks, batch, watcher >>

\* a clean that removes both output roots
cleanBothRoots(dir) ==
    [p \in {q \in DOMAIN fs : ~Under(DIST_PATH, q) /\ ~Under(DEV_PATH, q)} |-> fs[p]]

\* rimraf.sync(dir)
cleanFolder(dir) == [p \in {q \in DOMAIN fs : ~Under(dir, q)} |-> fs[p]]

CleanFolder ==
    /\ AtStatement("cleanFolder")
    /\ \/ fs' = cleanFolder(DIR_PATH(isDevelopment)) /\ Advance
       \/ fs' = fs /\ Throw
    /\ UNCHANGED << config, tree, discovery, errlog, tasks, batch, watcher >>

\* the files with file at path
WriteFile(files, path, content) ==
    [p \in (DOMAIN files) \cup {path} |-> IF p = path THEN content ELSE files[p]]

\* mkdirp.sync(dir)
createFolder(files, dir) == WriteFile(files, dir, Dir)

CreateFolder ==
    /\ AtStatement("createFolder")
    /\ \/ fs' = createFolder(fs, DIR_PATH(isDevelopment)) /\ Advance
       \/ fs' = fs /\ Throw
    /\ UNCHANGED << config, tree, discovery, errlog, tasks, batch, watcher >>

createPackageJson(dir, obj) ==
    WriteFile(fs, dir \o Sl \o W_packageJson, [kind |-> "json", obj |-> prepareJson(obj)])

CreatePackageJson ==
    /\ AtStatement("createPackageJson")
    /\ \/ fs' = createPackageJson(DIST_PATH, pkg) /\ Advance
       \/ fs' = fs /\ Throw
    /\ UNCHANGED << config, tree, discovery, errlog, tasks, batch, watcher >>

copyFiles(dir, files) ==
    [p \in (DOMAIN fs) \cup {dir \o Sl \o f : f \in files} |->
        IF \E f \in files : p = dir \o Sl \o f
        THEN [kind |-> "copy", of |-> CHOOSE f \in files : p = dir \o Sl \o f]
        ELSE fs[p]]

CopyFiles ==
    /\ AtStatement("copyFiles")
    /\ \/ fs' = copyFiles(DIST_PATH, StaticAssets) /\ Advance
       \/ fs' = fs /\ Throw
    /\ UNCHANGED << config, tree, discovery, errlog, tasks, batch, watcher >>

\* a catch that logs the error and throws it again
rethrowManifestError(format) ==
    /\ errlog' = Append(errlog, format)
    /\ Throw

\* the catch of buildPathMapping: the error is logged and the script goes on
catchManifestError(format) ==
    /\ errlog' = Append(errlog, format)
    /\ Advance

\* buildPathMapping(format)(modules): mkdirp.sync or writeFileSync may throw
BuildPathMapping(format) ==
    LET dir == DIR_PATH(isDevelopment) \o Sl \o format
        content == pathMappingTemplate(pathMappingEntries(isDevelopment, format, modules))
    IN  \/ /\ fs' = WriteFile(createFolder(fs, dir), pathMappingFile(isDevelopment, format),
                              content)
           /\ errlog' = errlog
           /\ Advance
        \/ /\ fs' = fs
           /\ catchManifestError(format)
        \/ /\ fs' = createFolder(fs, dir)
           /\ catchManifestError(format)

BuildCjsPathMapping ==
    /\ AtStatement("buildCjsPathMapping")
    /\ BuildPathMapping(CJS_MODULES)
    /\ UNCHANGED << config, tree, discovery, tasks, batch, watcher >>

BuildEsmPathMapping ==
    /\ AtStatement("buildEsmPathMapping")
    /\ BuildPathMapping(ESM_MODULES)
    /\ UNCHANGED << config, tree, discovery, tasks, batch, watcher >>

\* buildModule(format)(file) up to its first await: rollup.rollup is called.
\* index is the place of file in the batch, 0 outside a batch
buildModule(format, file, index) ==
    [format |-> format,
     input |-> file,
     external |-> rollupConfigExternal \cup Range(externals),
     output |-> createModulePath(isDevelopment, format, file),
     index |-> index,
     source |-> 0,
     phase |-> "rollup"]

InFlight(t) == t.phase \in {"rollup", "write"}

\* mapAsync(buildModule(format))(files): the calls made before it first waits
mapAsync(format, files) ==
    IF mapAsyncConcurrent
    THEN [i \in 1..Len(files) |-> buildModule(format, files[i], i)]
    ELSE IF files = << >> THEN << >> ELSE << buildModule(format, files[1], 1) >>

BuildModules(format) ==
    /\ tasks' = tasks \o mapAsync(format, modules)
    /\ batch' = [batch EXCEPT ![format] = IF modules = << >> THEN "resolved" ELSE "pending"]
    /\ Advance
    /\ UNCHANGED << config, tree, discovery, fs, errlog, watcher >>

BuildEsmModules ==
    /\ AtStatement("buildEsmModules")
    /\ BuildModules(ESM_MODULES)

BuildCjsModules ==
    /\ AtStatement("buildCjsModules")
    /\ BuildModules(CJS_MODULES)

\* chokidar.watch(...).on('all', ...): the subscription
Watch ==
    /\ AtStatement("watch")
    /\ Advance
    /\ UNCHANGED << config, tree, discovery, fs, errlog, tasks, batch, watcher >>

\* a promise is rejected and nothing handles it
UnhandledRejection ==
    IF unhandledRejections = "throw"
    THEN pc' = "exited" /\ exitCode' = "nonzero"
    ELSE pc' = pc /\ exitCode' = exitCode

\* the promise of task i is rejected; its bundle, if it had one, is dropped
Reject(i) ==
    LET t == tasks[i]
    IN  /\ tasks' = [tasks EXCEPT ![i].phase = "failed", ![i].source = 0]
        /\ IF t.index = 0
           THEN batch' = batch /\ UnhandledRejection
           ELSE IF batch[t.format] = "pending"
           THEN batch' = [batch EXCEPT ![t.format] = "rejected"] /\ UnhandledRejection
           ELSE UNCHANGED << batch, pc, exitCode >>

\* await rollup.rollup(inputOptions) returns the bundle, made of the content
\* the input file had when rollup read it: bundle.write is called
RollupDone(i) ==
    /\ pc = "loop"
    /\ tasks[i].phase = "rollup"
    /\ tasks[i].input \in tree
    /\ tasks' = [tasks EXCEPT ![i].phase = "write", ![i].source = revision[tasks[i].input]]
    /\ UNCHANGED << config, tree, discovery, pc, ip, exitCode, fs, errlog, batch, watcher >>

RollupFailed(i) ==
    /\ pc = "loop"
    /\ tasks[i].phase = "rollup"
    /\ Reject(i)
    /\ UNCHANGED << config, tree, discovery, ip, fs, errlog, watcher >>

\* a mapAsync that makes no further call once a task is done
ResolveWithoutNext(i) == [tasks EXCEPT ![i].phase = "done"]

\* the tasks once task i is done, with the call mapAsync makes next
Resolve(i) ==
    LET t == tasks[i]
        done == [tasks EXCEPT ![i].phase = "done"]
    IN  IF t.index = 0 \/ mapAsyncConcurrent \/ t.index = Len(modules)
           \/ batch[t.format] # "pending"
        THEN done
        ELSE Append(done, buildModule(t.format, modules[t.index + 1], t.index + 1))

\* await bundle.write(outputOptions) returns: the output file is written
WriteDone(i) ==
    LET t == tasks[i]
    IN  /\ pc = "loop"
        /\ t.phase = "write"
        /\ fs' = WriteFile(fs, t.output,
                           [kind |-> "module", format |-> t.format, input |-> t.input,
                            source |-> t.source])
        /\ tasks' = Resolve(i)
        /\ batch' =
             IF /\ t.index # 0
                /\ batch[t.format] = "pending"
                /\ \A j \in 1..Len(tasks') :
                      tasks'[j].format = t.format => tasks'[j].phase = "done"
             THEN [batch EXCEPT ![t.format] = "resolved"]
             ELSE batch
        /\ UNCHANGED << config, tree, discovery, pc, ip, exitCode, errlog, watcher >>

WriteFailed(i) ==
    /\ pc = "loop"
    /\ tasks[i].phase = "write"
    /\ Reject(i)
    /\ UNCHANGED << config, tree, discovery, ip, fs, errlog, watcher >>

\* nothing is left to wait for: the process ends
Exit ==
    /\ pc = "loop"
    /\ ~isDevelopment
    /\ \A i \in 1..Len(tasks) : ~InFlight(tasks[i])
    /\ pc' = "exited"
    /\ exitCode' = "zero"
    /\ UNCHANGED << config, tree, discovery, ip, fs, errlog, tasks, batch, watcher >>

(***************************************************************************)
(* The watch subscription of the development branch.                       *)
(***************************************************************************)
\* { ignored: DO_NOT_BUILD_PATHS }: the watcher reports no such path
Ignored(path) == anymatch(DO_NOT_BUILD_PATHS, path)

WatchedFiles == {p \in PipelineFiles : ~Ignored(p)}
WatchedDirs == {D_Foo}

\* buildModules(file) of the development branch
buildModules(file) ==
    << buildModule(CJS_MODULES, file, 0), buildModule(ESM_MODULES, file, 0) >>

\* a handler that compiles on every event
OnAllEvents(event, fileOrDir) == buildModules(fileOrDir)

\* the handler of 'all': the calls of buildModule it makes
OnAll(event, fileOrDir) ==
    IF event \in {"add", "change"} THEN buildModules(fileOrDir) ELSE << >>

\* a handler that waits for the tasks in flight before it takes an event
HandleSerialized(event, fileOrDir) ==
    /\ pc = "loop"
    /\ isDevelopment
    /\ \A i \in 1..Len(tasks) : ~InFlight(tasks[i])
    /\ events' = events + 1
    /\ lastEvent' = [event |-> event, path |-> fileOrDir]
    /\ tasks' = tasks \o OnAll(event, fileOrDir)
    /\ UNCHANGED << config, discovery, pc, ip, exitCode, fs, errlog, batch >>

Handle(event, fileOrDir) ==
    /\ pc = "loop"
    /\ isDevelopment
    /\ events' = events + 1
    /\ lastEvent' = [event |-> event, path |-> fileOrDir]
    /\ tasks' = tasks \o OnAll(event, fileOrDir)
    /\ UNCHANGED << config, discovery, pc, ip, exitCode, fs, errlog, batch >>

\* the file at p has a new content
Edit(p) == [revision EXCEPT ![p] = @ + 1]

\* a file is found by the first scan, or is created later
EventAdd(p) ==
    /\ p \notin watched
    /\ Handle("add", p)
    /\ tree' = tree \cup {p}
    /\ watched' = watched \cup {p}
    /\ revision' = IF p \in tree THEN revision ELSE Edit(p)

EventChange(p) ==
    /\ p \in watched
    /\ Handle("change", p)
    /\ revision' = Edit(p)
    /\ UNCHANGED << tree, watched >>

EventUnlink(p) ==
    /\ p \in watched
    /\ Handle("unlink", p)
    /\ tree' = tree \ {p}
    /\ watched' = watched \ {p}
    /\ revision' = revision

EventDir(event, d) ==
    /\ Handle(event, d)
    /\ UNCHANGED << tree, watched, revision >>

Next ==
    \/ Discover
    \/ CleanFolder
    \/ CreateFolder
    \/ CreatePackageJson
    \/ CopyFiles
    \/ BuildCjsPathMapping
    \/ BuildEsmPathMapping
    \/ BuildEsmModules
    \/ BuildCjsModules
    \/ Watch
    \/ \E i \in 1..Len(tasks) : RollupDone(i)
    \/ \E i \in 1..Len(tasks) : RollupFailed(i)
    \/ \E i \in 1..Len(tasks) : WriteDone(i)
    \/ \E i \in 1..Len(tasks) : WriteFailed(i)
    \/ Exit
    \/ events < MaxEvents /\ \E p \in WatchedFiles : EventAdd(p)
    \/ events < MaxEvents /\ \E p \in WatchedFiles : EventChange(p)
    \/ events < MaxEvents /\ \E p \in WatchedFiles : EventUnlink(p)
    \/ events < MaxEvents /\ \E e \in {"addDir", "unlinkDir"}, d \in WatchedDirs : EventDir(e, d)

Spec == Init /\ [][Next]_vars

(***************************************************************************)
(* The production branch alone.                                            *)
(***************************************************************************)
InitProd == Init /\ ~isDevelopment

NextProd ==
    \/ Discover
    \/ CleanFolder
    \/ CreateFolder
    \/ CreatePackageJson
    \/ CopyFiles
    \/ BuildCjsPathMapping
    \/ BuildEsmPathMapping
    \/ BuildEsmModules
    \/ BuildCjsModules
    \/ \E i \in 1..Len(tasks) : RollupDone(i)
    \/ \E i \in 1..Len(tasks) : RollupFailed(i)
    \/ \E i \in 1..Len(tasks) : WriteDone(i)
    \/ \E i \in 1..Len(tasks) : WriteFailed(i)
    \/ Exit

SpecProd == InitProd /\ [][NextProd]_vars

(***************************************************************************)
(* The statements of the script, up to the event loop, on every tree of    *)
(* the files of the model: classification, module names and manifests.     *)
(***************************************************************************)
InitScript == InitOn(SUBSET Universe)

NextScript ==
    \/ Discover
    \/ CleanFolder
    \/ CreateFolder
    \/ CreatePackageJson
    \/ CopyFiles
    \/ BuildCjsPathMapping
    \/ BuildEsmPathMapping
    \/ BuildEsmModules
    \/ BuildCjsModules
    \/ Watch

SpecScript == InitScript /\ [][NextScript]_vars

\* the script on the trees of a whole run; it is synchronous, so a statement
\* that can run does run
SpecScriptFair == Init /\ [][NextScript]_vars /\ WF_vars(NextScript)

(***************************************************************************)
(* Classification and module names.                                        *)
(***************************************************************************)
\* the module name the script gives a file (lines 112-115 and 136-137)
ModuleName(file) == createModuleName(createPathName(file))

Eligible(t) == {f \in t : takeFiles(f)}

Discovered == pc # "load"

\* C5: two distinct eligible files of the source tree never have the same
\* module name, also when X/index.js and X.js both exist.
C5_ModuleNameInjective ==
    Discovered =>
        \A i, j \in 1..Len(modules) :
            ModuleName(modules[i]) = ModuleName(modules[j]) => i = j

\* the manifest module of a format, when it was written
HasManifest(format) ==
    /\ pathMappingFile(isDevelopment, format) \in DOMAIN fs
    /\ fs[pathMappingFile(isDevelopment, format)].kind = "manifest"

Manifest(format) == LoadManifest(fs[pathMappingFile(isDevelopment, format)])

\* C7: the mapping a generated manifest module returns has as many entries as
\* there were eligible files, and maps the module name of each of them to a
\* location that is not empty.
C7_ManifestRoundTrip ==
    \A format \in Formats :
        HasManifest(format) =>
            /\ Cardinality(DOMAIN Manifest(format)) = Len(modules)
            /\ \A i \in 1..Len(modules) :
                  /\ ModuleName(modules[i]) \in DOMAIN Manifest(format)
                  /\ Manifest(format)[ModuleName(modules[i])] # Empty

\* the path of a file relative to the source root
Relative(file) == Slice(file, Len(SOURCE_PATH) + 2, Len(file))

WithoutSuffix(s, suffix) == Slice(s, 1, Len(s) - Len(suffix))

\* the module name C10 gives an eligible file
C10_Name(file) ==
    LET r == Relative(file)
    IN  IF r = W_index \o X_js THEN pkgName
        ELSE IF endsWith(Sl \o W_index \o X_js, r)
        THEN pkgName \o Sl \o WithoutSuffix(r, Sl \o W_index \o X_js)
        ELSE pkgName \o Sl \o WithoutSuffix(r, X_js)

C10_Tree == {F_index, F_FooIndex, F_FooBar, F_FooBarTest}

\* C10: a file is eligible exactly when its path ends in .js and matches no
\* exclusion pattern; the root index.js is named after the package, X/index.js
\* <package>/X, any other file <package>/<relative path without .js>; on the
\* tree of scenario 1 the eligible files are index.js, Foo/index.js and
\* Foo/bar.js, named lib, lib/Foo and lib/Foo/bar.
C10_Classification ==
    Discovered =>
        /\ \A f \in tree :
              /\ f \in Range(modules)
                    <=> endsWith(X_js, f) /\ \A p \in DO_NOT_BUILD_PATHS : ~Contains(p, f)
              /\ (\E p \in DO_NOT_BUILD_PATHS : Contains(p, f)) => f \notin Range(modules)
        /\ \A i \in 1..Len(modules) : externals[i] = C10_Name(modules[i])
        /\ tree = C10_Tree =>
              /\ Range(modules) = {F_index, F_FooIndex, F_FooBar}
              /\ Range(externals) =
                    {pkgName, pkgName \o Sl \o W_Foo, pkgName \o Sl \o W_Foo \o Sl \o W_bar}

\* C10 without the naming rule
C10_EligibilityAndScenario ==
    Discovered =>
        /\ \A f \in tree :
              /\ f \in Range(modules)
                    <=> endsWith(X_js, f) /\ \A p \in DO_NOT_BUILD_PATHS : ~Contains(p, f)
              /\ (\E p \in DO_NOT_BUILD_PATHS : Contains(p, f)) => f \notin Range(modules)
        /\ \A i \in 1..Len(modules) :
              ~endsWith(W_re \o W_index \o X_js, modules[i])
                  => externals[i] = C10_Name(modules[i])
        /\ tree = C10_Tree =>
              /\ Range(modules) = {F_index, F_FooIndex, F_FooBar}
              /\ Range(externals) =
                    {pkgName, pkgName \o Sl \o W_Foo, pkgName \o Sl \o W_Foo \o Sl \o W_bar}
(***************************************************************************)
(* The production pipeline.                                                *)
(***************************************************************************)
Alive == pc # "exited"

TasksOf(format) == {i \in 1..Len(tasks) : tasks[i].format = format}

Running(i) == Alive /\ InFlight(tasks[i])

SomeTaskFailed == \E i \in 1..Len(tasks) : tasks[i].phase = "failed"

\* C1 as claimed: no cjs task is started until every esm task has completed,
\* so an esm task and a cjs task are never in flight at the same time.
C1_EsmAwaitedBeforeCjs ==
    ~isDevelopment =>
        \A i \in TasksOf(ESM_MODULES), j \in TasksOf(CJS_MODULES) :
            ~(Running(i) /\ Running(j))

\* C1 as amended: no cjs task is started before the esm batch is started (the
\* first esm task is called before any cjs task), but the cjs batch does not
\* wait for the esm tasks to complete.
C1_EsmStartedBeforeCjs ==
    ~isDevelopment =>
        \A j \in TasksOf(CJS_MODULES) :
            /\ batch[ESM_MODULES] # "none"
            /\ \E i \in TasksOf(ESM_MODULES) : i < j /\ tasks[i].index = 1

\* C1, reached: an esm task and a cjs task of a production run are in flight
\* together while the process runs its event loop.
C1_Witness ==
    /\ ~isDevelopment
    /\ pc = "loop"
    /\ \E i \in TasksOf(ESM_MODULES), j \in TasksOf(CJS_MODULES) :
          Running(i) /\ Running(j)

\* C3: when a compile task of a production batch fails, the run ends with a
\* non-zero exit code, never with a successful one (that no further task of
\* the batch is started after the failure is C3_NoStartAfterFailure).
C3_FailureExitsNonZero ==
    (~isDevelopment /\ pc = "exited" /\ SomeTaskFailed) => exitCode = "nonzero"

\* the first half of C3: a batch that is rejected starts no further task
C3_NoStartAfterFailure ==
    [][ \A format \in Formats :
            (~isDevelopment /\ batch[format] = "rejected") =>
                \A i \in (Len(tasks) + 1)..Len(tasks') : tasks'[i].format # format ]_vars

\* the compiled output of file in format: <root>/<format>/<relative path>
OutputPath(root, format, file) == root \o Sl \o format \o Sl \o Relative(file)

ModuleFiles == {p \in DOMAIN fs : fs[p].kind = "module"}

NoFailingStep ==
    /\ pc = "exited"
    /\ exitCode = "zero"
    /\ errlog = << >>
    /\ ~SomeTaskFailed

\* C6: when a production run finishes with no failing step, each format has
\* exactly one compiled output per eligible file at <dist>/<format>/<relative
\* path>, its manifest module at <dist>/<format>/path-mapping.js holding the
\* manifest, and <dist>/package.json has main ./cjs/index.js and module
\* ./esm/index.js; no file that is not eligible was compiled.
C6_ProductionOutputs ==
    (~isDevelopment /\ NoFailingStep) =>
        /\ \A format \in Formats :
              /\ \A f \in Eligible(tree) :
                    /\ OutputPath(DIST_PATH, format, f) \in ModuleFiles
                    /\ fs[OutputPath(DIST_PATH, format, f)].format = format
                    /\ fs[OutputPath(DIST_PATH, format, f)].input = f
              /\ DIST_PATH \o Sl \o format \o Sl \o W_pathMapping \o X_js \in DOMAIN fs
              /\ fs[DIST_PATH \o Sl \o format \o Sl \o W_pathMapping \o X_js]
                    = pathMappingTemplate(pathMappingEntries(FALSE, format, modules))
        /\ Cardinality(ModuleFiles) = 2 * Cardinality(Eligible(tree))
        /\ DIST_PATH \o Sl \o W_packageJson \in DOMAIN fs
        /\ fs[DIST_PATH \o Sl \o W_packageJson].kind = "json"
        /\ fs[DIST_PATH \o Sl \o W_packageJson].obj["main"] = V_main
        /\ fs[DIST_PATH \o Sl \o W_packageJson].obj["module"] = V_module
        /\ \A i \in 1..Len(tasks) : tasks[i].input \in Eligible(tree)

\* C6 on the runs where the package has no main or module of its own and no
\* source file is compiled onto a manifest module
C6_ProductionOutputsOtherwise ==
    (/\ DOMAIN pkg \cap {"main", "module"} = {}
     /\ F_pathMapping \notin tree)
        => C6_ProductionOutputs
(***************************************************************************)
(* The development pipeline.                                               *)
(***************************************************************************)
\* the watch subscription is in place and the process serves its events
Watching == isDevelopment /\ pc = "loop"

\* C2: a compile task that fails in development mode does not end the watch
\* loop: after any failure the pipeline is still watching, so that later
\* events still start their compile invocations.
C2_WatchSurvivesFailure ==
    (isDevelopment /\ SomeTaskFailed) => Watching

\* an add or change event is handed to the handler in this step
CompileEvent ==
    /\ events' = events + 1
    /\ lastEvent'.event \in {"add", "change"}

\* C4: in development mode an add or change event for a path starts exactly
\* two compile invocations, cjs and esm, with that path as input; what they
\* write is the compiled output of that path in their format, not the output
\* of another source file, and neither manifest module is rewritten.
C4_EventCompilesOneFile ==
    [][ Watching =>
          /\ CompileEvent =>
                /\ Len(tasks') = Len(tasks) + 2
                /\ {tasks'[i].format : i \in (Len(tasks) + 1)..Len(tasks')} = Formats
                /\ \A i \in (Len(tasks) + 1)..Len(tasks') :
                      tasks'[i].input = lastEvent'.path
          /\ \A q \in DOMAIN fs' :
                (q \notin DOMAIN fs \/ fs'[q] # fs[q]) =>
                    /\ \E i \in 1..Len(tasks) :
                          /\ tasks[i].phase = "write"
                          /\ tasks'[i].phase = "done"
                          /\ q = OutputPath(DEV_PATH, tasks[i].format, tasks[i].input)
                    /\ \A format \in Formats : q # pathMappingFile(TRUE, format) ]_vars

\* C4 for the events of every path but <source root>/path-mapping.js
C4_EventCompilesOneFileOtherwise ==
    [][ (Watching /\ \A i \in 1..Len(tasks) : tasks[i].input # F_pathMapping) =>
          /\ CompileEvent =>
                /\ Len(tasks') = Len(tasks) + 2
                /\ {tasks'[i].format : i \in (Len(tasks) + 1)..Len(tasks')} = Formats
                /\ \A i \in (Len(tasks) + 1)..Len(tasks') :
                      tasks'[i].input = lastEvent'.path
          /\ \A q \in DOMAIN fs' :
                (q \notin DOMAIN fs \/ fs'[q] # fs[q]) =>
                    /\ \E i \in 1..Len(tasks) :
                          /\ tasks[i].phase = "write"
                          /\ tasks'[i].phase = "done"
                          /\ q = OutputPath(DEV_PATH, tasks[i].format, tasks[i].input)
                    /\ \A format \in Formats : q # pathMappingFile(TRUE, format) ]_vars

\* C9: at every call of rollup.rollup, in a production batch and in a watch
\* event alike, the external list holds the externals of the base
\* configuration and the module name of every eligible file of the source
\* tree at that time, files added after the start included.
C9_ExternalsOfCurrentTree ==
    [][ \A i \in (Len(tasks) + 1)..Len(tasks') :
            /\ rollupConfigExternal \subseteq tasks'[i].external
            /\ \A f \in Eligible(tree') :
                  f # tasks'[i].input => ModuleName(f) \in tasks'[i].external ]_vars

\* C9 for the eligible files that were in the source tree when the script
\* was loaded
C9_ExternalsOfDiscovery ==
    [][ \A i \in (Len(tasks) + 1)..Len(tasks') :
            /\ rollupConfigExternal \subseteq tasks'[i].external
            /\ \A k \in 1..Len(modules) : ModuleName(modules[k]) \in tasks'[i].external ]_vars
(***************************************************************************)
(* Failures of the manifest generation.                                    *)
(***************************************************************************)
\* the script has run to its end: each manifest was written or its failure
\* logged, and the batches were started or the watcher subscribed
ScriptCompleted ==
    /\ pc = "loop"
    /\ \A format \in Formats : format \in Range(errlog) \/ HasManifest(format)
    /\ isDevelopment \/ \A format \in Formats : batch[format] # "none"

\* C8: a failure to create the format directory or to write a manifest module
\* is caught: the statements after it still run, the other manifest, then the
\* compile batches in production or the watch subscription in development.
C8_ManifestFailureNotFatal == (errlog # << >>) ~> ScriptCompleted

\* C8, reached: the cjs manifest failed, the esm manifest was written all the
\* same and both batches of a production run were started.
C8_Witness ==
    /\ ~isDevelopment
    /\ errlog = << CJS_MODULES >>
    /\ HasManifest(ESM_MODULES)
    /\ ScriptCompleted
    /\ tasks # << >>

\* C8, reached in development: a manifest failed and the process is watching
C8_WitnessWatching == Watching /\ errlog # << >>

(***************************************************************************)
(* The package descriptor transform.                                       *)
(***************************************************************************)
FixedKeys == DOMAIN EntryPoints

\* the package descriptor was written
HasDescriptor ==
    /\ DIST_PATH \o Sl \o W_packageJson \in DOMAIN fs
    /\ fs[DIST_PATH \o Sl \o W_packageJson].kind = "json"

Descriptor == fs[DIST_PATH \o Sl \o W_packageJson].obj

\* C11: whatever keys the input object has, the descriptor written from it
\* has no scripts key, has main = ./cjs/index.js, module = ./esm/index.js and
\* sideEffects = false, and has every other key of the input unchanged.
C11_DescriptorTransform ==
    HasDescriptor =>
        /\ "scripts" \notin DOMAIN Descriptor
        /\ FixedKeys \subseteq DOMAIN Descriptor
        /\ \A k \in FixedKeys : Descriptor[k] = EntryPoints[k]
        /\ DOMAIN Descriptor = ((DOMAIN pkg) \ {"scripts"}) \cup FixedKeys
        /\ \A k \in (DOMAIN pkg) \ ({"scripts"} \cup FixedKeys) : Descriptor[k] = pkg[k]

\* C11 on the inputs that have none of the three fixed keys
C11_DescriptorTransformOtherwise ==
    (DOMAIN pkg \cap FixedKeys = {}) => C11_DescriptorTransform

(***************************************************************************)
(* Successive events for one file in development: the file is reported by  *)
(* the first scan and then changed up to MaxChanges times.  The tasks run  *)
(* to completion here; the tasks that fail are followed under Spec.        *)
(***************************************************************************)
InitRace == Init /\ isDevelopment /\ tree = {F_index}

NextRace ==
    \/ Discover
    \/ CleanFolder
    \/ CreateFolder
    \/ BuildCjsPathMapping
    \/ BuildEsmPathMapping
    \/ Watch
    \/ \E i \in 1..Len(tasks) : RollupDone(i)
    \/ \E i \in 1..Len(tasks) : WriteDone(i)
    \/ EventAdd(F_index)
    \/ events <= MaxChanges /\ EventChange(F_index)

SpecRace == InitRace /\ [][NextRace]_vars

\* what task t writes
Written(t) == [kind |-> "module", format |-> t.format, input |-> t.input, source |-> t.source]

\* C12: in development a change event is handled whatever tasks are in
\* flight, each compile event starts its two tasks and leaves every earlier
\* task as it was, and a task that writes puts its own bundle at its output
\* path, whatever was there and whatever the file's content is by then.
C12_EventsNotSerialized ==
    /\ [](Watching /\ events <= MaxChanges => \A p \in watched : ENABLED EventChange(p))
    /\ [][ /\ (events' = events + 1 /\ lastEvent'.event \in {"add", "change"}) =>
               /\ Len(tasks') = Len(tasks) + 2
               /\ SubSeq(tasks', 1, Len(tasks)) = tasks
               /\ \A i \in (Len(tasks) + 1)..Len(tasks') : tasks'[i].phase = "rollup"
           /\ \A i \in 1..Len(tasks) :
                 (tasks[i].phase = "write" /\ tasks'[i].phase = "done") =>
                     fs'[tasks[i].output] = Written(tasks[i]) ]_vars

\* C12, reached: the tasks of two successive change events of the file, both
\* formats of both, are in flight together
C12_WitnessInFlight ==
    /\ events = 3
    /\ Len(tasks) = 6
    /\ \A i \in 3..6 : InFlight(tasks[i]) /\ tasks[i].input = F_index

\* C12, reached: of the tasks of two successive change events, the one of the
\* earlier event wrote last; the output on disk is compiled from a content
\* older than the one the later task compiled
C12_Witness ==
    /\ events = 3
    /\ \E i \in 3..4, j \in 5..6 :
          /\ tasks[i].output = tasks[j].output
          /\ tasks[i].phase = "done" /\ tasks[j].phase = "done"
          /\ tasks[j].source = revision[F_index]
          /\ tasks[i].source < tasks[j].source
          /\ fs[tasks[i].output] = Written(tasks[i])

(***************************************************************************)
(* The order of the steps of a production run.                             *)
(***************************************************************************)
\* the statement name of the branch has been run (when it threw, it has not)
Done(name) ==
    /\ pc # "load"
    /\ \E k \in 1..Len(Script) : Script[k] = name /\ k < ip

\* the step of a run: "discover" is the module-level discovery
StepDone(step) == IF step = "discover" THEN Discovered ELSE Done(step)

\* every step that has been run has all the steps before it in order run too
InOrder(order) ==
    \A k \in 1..Len(order) : StepDone(order[k]) => \A j \in 1..(k - 1) : StepDone(order[j])

Copied == \E f \in StaticAssets :
              /\ DIST_PATH \o Sl \o f \in DOMAIN fs
              /\ fs[DIST_PATH \o Sl \o f].kind = "copy"

ManifestAttempted == errlog # << >> \/ \E format \in Formats : HasManifest(format)

\* C13, as the code has it: a production run discovers the eligible files,
\* cleans the output directory, ensures it exists, writes the package
\* descriptor, copies the static assets, generates the cjs manifest, then the
\* esm manifest, and only then starts the esm batch and the cjs batch.
C13_ProductionOrder ==
    ~isDevelopment =>
        /\ InOrder(<< "discover", "cleanFolder", "createFolder", "createPackageJson",
                      "copyFiles", "buildCjsPathMapping", "buildEsmPathMapping",
                      "buildEsmModules", "buildCjsModules" >>)
        /\ HasDescriptor <=> Done("createPackageJson")
        /\ Copied <=> Done("copyFiles")
        /\ ManifestAttempted => Copied
        /\ tasks # << >> => Done("buildEsmPathMapping")

\* C13: a production run cleans the output directory, ensures it exists,
\* discovers the eligible files, generates both manifests, writes the package
\* descriptor, copies the static assets, and only then starts compiling: both
\* manifests come before the descriptor, and the descriptor before the copy.
C13_ManifestsBeforeDescriptor ==
    ~isDevelopment =>
        /\ InOrder(<< "cleanFolder", "createFolder", "discover", "buildCjsPathMapping",
                      "buildEsmPathMapping", "createPackageJson", "copyFiles",
                      "buildEsmModules", "buildCjsModules" >>)
        /\ HasDescriptor => ManifestAttempted
        /\ Copied => HasDescriptor
        /\ tasks # << >> => Copied

\* C13, reached: the descriptor is written and the assets are copied, and no
\* manifest has been generated yet
C13_Witness ==
    /\ ~isDevelopment
    /\ AtStatement("buildCjsPathMapping")
    /\ HasDescriptor
    /\ Copied
    /\ ~ManifestAttempted

(***************************************************************************)
(* The development branch alone, started on a tree of one file, with the   *)
(* events of a module and of a file that is no module.  The tasks run to   *)
(* completion here; the tasks that fail are followed under Spec.           *)
(***************************************************************************)
DevFiles == {F_index, F_aMd}

NextDev ==
    \/ Discover
    \/ CleanFolder
    \/ CreateFolder
    \/ BuildCjsPathMapping
    \/ BuildEsmPathMapping
    \/ Watch
    \/ \E i \in 1..Len(tasks) : RollupDone(i)
    \/ \E i \in 1..Len(tasks) : WriteDone(i)
    \/ events < MaxEvents /\ \E p \in DevFiles : EventAdd(p)
    \/ events < MaxEvents /\ \E p \in DevFiles : EventChange(p)
    \/ events < MaxEvents /\ \E p \in DevFiles : EventUnlink(p)
    \/ events < MaxEvents /\ \E e \in {"addDir", "unlinkDir"}, d \in WatchedDirs : EventDir(e, d)

SpecDev == InitRace /\ [][NextDev]_vars

\* the step hands an event to the handler
EventStep == events' = events + 1

\* C14: in development an event whose kind is not add or change starts no
\* compile task and changes no file under the output root, no manifest and no
\* log; so the removal of a source file leaves its compiled outputs and its
\* manifest entries as they were.
C14_OtherEventsAreNoOps ==
    [][ (EventStep /\ lastEvent'.event \notin {"add", "change"}) =>
            /\ tasks' = tasks
            /\ fs' = fs
            /\ errlog' = errlog
            /\ UNCHANGED << discovery, pc, exitCode >> ]_vars

\* C14, reached: a source file was compiled and then removed; its outputs and
\* its manifest entries are where they were
C14_Witness ==
    /\ lastEvent.event = "unlink"
    /\ lastEvent.path \notin tree
    /\ \A format \in Formats :
          /\ createModulePath(TRUE, format, lastEvent.path) \in ModuleFiles
          /\ HasManifest(format)
          /\ ModuleName(lastEvent.path) \in DOMAIN Manifest(format)

(***************************************************************************)
(* Termination of a production run.                                        *)
(***************************************************************************)
\* a production run whose steps are taken: a statement that can run does
\* run, a task in flight completes or fails, a process with nothing to wait
\* for ends.  The content of the descriptor plays no part in this: the runs
\* of one package are followed.
InitProdFair == InitProd /\ "scripts" \in DOMAIN pkg

SpecProdFair == InitProdFair /\ [][NextProd]_vars /\ WF_vars(NextProd)

\* the tasks that compiled file to format
Compiled(format, file) ==
    {i \in 1..Len(tasks) :
        tasks[i].format = format /\ tasks[i].input = file /\ tasks[i].phase = "done"}

\* every eligible file was compiled to each format, by one task and no more
AllCompiled ==
    /\ \A format \in Formats, f \in Eligible(tree) : Cardinality(Compiled(format, f)) = 1
    /\ Len(tasks) = 2 * Cardinality(Eligible(tree))

Terminated == pc = "exited" /\ \A i \in 1..Len(tasks) : ~Running(i)

\* C15, with the steps that throw: a production run whose tasks each
\* complete or fail ends; when it ends no task is running, and when no step
\* threw and no task failed every eligible file was compiled once to each
\* format.
C15_ProductionTerminates ==
    <>(/\ Terminated
       /\ (exitCode = "zero" /\ ~SomeTaskFailed) => AllCompiled)

\* C15: a production run whose tasks each complete or fail ends in a state
\* where no task is in flight and where, when no task failed, every eligible
\* file was compiled to both formats.
C15_TerminatesAllCompiled ==
    <>(/\ Terminated
       /\ ~SomeTaskFailed => AllCompiled)

\* C15, reached: a run of two modules ended with every task done
C15_Witness ==
    /\ ~isDevelopment
    /\ Terminated
    /\ exitCode = "zero"
    /\ Len(modules) = 2
    /\ ~SomeTaskFailed
    /\ AllCompiled

(***************************************************************************)
(* The two modes, each started on a tree of one module: the development    *)
(* branch as under SpecDev, the production branch as under SpecProd.       *)
(***************************************************************************)
InitModes == Init /\ tree = {F_index}

NextModes ==
    \/ isDevelopment /\ NextDev
    \/ ~isDevelopment /\ NextProd

SpecModes == InitModes /\ [][NextModes]_vars

\* the step adds, removes or rewrites the file at p
Touches(p) == p \notin DOMAIN fs \/ p \notin DOMAIN fs' \/ fs[p] # fs'[p]

\* C16: the mode never changes during a run, and a step adds, removes or
\* rewrites files under the output root of the mode only: dev in development,
\* where no package descriptor is written and no static asset copied, dist in
\* production, where no watch subscription is made and no event handled.
C16_RunKeepsToItsRoot ==
    [][ /\ isDevelopment' = isDevelopment
        /\ \A p \in (DOMAIN fs) \cup (DOMAIN fs') :
              Touches(p) => Under(DIR_PATH(isDevelopment), p)
        /\ isDevelopment => \A p \in DOMAIN fs' : fs'[p].kind \notin {"json", "copy"}
        /\ ~isDevelopment =>
              /\ "watch" \notin Range(Script)
              /\ events' = 0
              /\ watched' = {} ]_vars

\* C16, reached in development: the process watches, a module was compiled
\* under dev, and what an earlier run left under dist is still there
C16_Witness ==
    /\ Watching
    /\ \A format \in Formats : createModulePath(TRUE, format, F_index) \in ModuleFiles
    /\ DEV_PATH \o Sl \o W_old \notin DOMAIN fs
    /\ DIST_PATH \o Sl \o W_old \in DOMAIN fs

\* C16, reached in production: the run ended, the module was compiled under
\* dist, and what an earlier run left under dev is still there
C16_WitnessProduction ==
    /\ ~isDevelopment
    /\ pc = "exited"
    /\ \A format \in Formats : createModulePath(FALSE, format, F_index) \in ModuleFiles
    /\ HasDescriptor
    /\ DIST_PATH \o Sl \o W_old \notin DOMAIN fs
    /\ DEV_PATH \o Sl \o W_old \in DOMAIN fs

(***************************************************************************)
(* The inputs of the compile tasks.                                        *)
(***************************************************************************)
\* C17: in both modes every compile task has as input a path that ends in
\* .js and matches no exclusion pattern, also the tasks started for the add
\* and change events of files of other extensions.
C17_OnlyEligibleCompiled ==
    \A i \in 1..Len(tasks) : takeFiles(tasks[i].input)

\* C17 in production, where the inputs are the modules of the discovery
C17_OnlyEligibleCompiledInProduction ==
    ~isDevelopment => C17_OnlyEligibleCompiled

\* C17 without the extension: no task has an input that matches an exclusion
\* pattern
C17_NoExcludedCompiled ==
    \A i \in 1..Len(tasks) : isNotIncludedInBuildPaths(tasks[i].input)

(***************************************************************************)
(* The output paths of the compile tasks.                                  *)
(***************************************************************************)
\* two tasks with the same output path have the same format and the same
\* input, and in a production run they are the same task
OutputPathInjective ==
    \A i, j \in 1..Len(tasks) :
        tasks[i].output = tasks[j].output =>
            /\ tasks[i].format = tasks[j].format
            /\ tasks[i].input = tasks[j].input
            /\ ~isDevelopment => i = j

\* C18: the output path of a task is an injective function of its format and
\* its source file, so no two tasks of a production run write the same path,
\* and no task writes the path of a manifest module,
\* <output root>/<format>/path-mapping.js.
C18_OutputPathsDistinct ==
    /\ OutputPathInjective
    /\ \A i \in 1..Len(tasks), format \in Formats :
          tasks[i].output # pathMappingFile(isDevelopment, format)

\* C18 without the manifests: the output paths of the tasks among themselves
C18_OutputPathInjective == OutputPathInjective

\* C18 on the trees without a source file named path-mapping.js at the root
C18_OutputPathsDistinctOtherwise ==
    (F_pathMapping \notin tree) => C18_OutputPathsDistinct
====
